---------------------------- MODULE Spec2Model ----------------------------
(***************************************************************************)
(* Model of notion/utils.py: extract_id, add_signed_prefix_as_needed,      *)
(* remove_signed_prefix_as_needed and get_by_path.                         *)
(*                                                                         *)
(* A Python str is a sequence of one-character strings.  A call's outcome  *)
(* is a record [kind, val, exc]: kind is "none" (no call made yet),        *)
(* "return" (val is the returned value) or "raise" (exc is the exception   *)
(* class, val its argument).                                               *)
(***************************************************************************)
EXTENDS Integers, Sequences, FiniteSets, TLC

VARIABLES
    eid_case,     \* how the extract_id input was built (shape, id, rendering)
    eid_in,       \* the string first passed to extract_id
    eid_arg,      \* the argument of the current extract_id call
    eid_out,      \* outcome of the current extract_id call
    eid_prev,     \* outcome of the previous extract_id call
    eid_calls,    \* number of extract_id calls made
    gp_path,      \* get_by_path: the path argument
    gp_obj,       \* get_by_path: the obj argument
    gp_default,   \* get_by_path: the default argument
    gp_out,       \* get_by_path: outcome of the call
    su_url,       \* signing: the url first passed in
    su_client,    \* signing: whether a client is passed to add_signed_prefix_as_needed
    su_cur,       \* signing: the current url value (after the calls made so far)
    su_ops,       \* signing: the calls made so far, in order
    su_out        \* signing: outcome of the last call

vars == <<eid_case, eid_in, eid_arg, eid_out, eid_prev, eid_calls,
          gp_path, gp_obj, gp_default, gp_out,
          su_url, su_client, su_cur, su_ops, su_out>>

eid_vars == <<eid_case, eid_in, eid_arg, eid_out, eid_prev, eid_calls>>
gp_vars == <<gp_path, gp_obj, gp_default, gp_out>>
su_vars == <<su_url, su_client, su_cur, su_ops, su_out>>

-----------------------------------------------------------------------------
(* Outcomes *)

NoCall == [kind |-> "none", val |-> <<>>, exc |-> ""]
Return(v) == [kind |-> "return", val |-> v, exc |-> ""]
Raise(e, v) == [kind |-> "raise", val |-> v, exc |-> e]

-----------------------------------------------------------------------------
(* Python str operations *)

\* body(e), with e evaluated once and handed on as a value.
Bind(e, body(_)) == CHOOSE r \in {body(x) : x \in {e}} : TRUE

Min(S) == CHOOSE x \in S : \A y \in S : x <= y
Max(S) == CHOOSE x \in S : \A y \in S : x >= y

StartsWith(s, p) == Len(s) >= Len(p) /\ SubSeq(s, 1, Len(p)) = p

\* s[n:]
Drop(s, n) == IF n >= Len(s) THEN <<>> ELSE SubSeq(s, n + 1, Len(s))

\* Index of the first occurrence of sep in s at or after position k, 0 if none.
Find(s, sep, k) ==
    Bind({j \in k..(Len(s) - Len(sep) + 1) : SubSeq(s, j, j + Len(sep) - 1) = sep},
         LAMBDA hits : IF hits = {} THEN 0 ELSE Min(hits))

\* The parts of s from position k on, between the occurrences of sep found
\* left to right.
RECURSIVE SplitFrom(_, _, _)
SplitFrom(s, sep, k) ==
    Bind(Find(s, sep, k),
         LAMBDA j : IF j = 0 THEN <<Drop(s, k - 1)>>
                    ELSE <<SubSeq(s, k, j - 1)>> \o SplitFrom(s, sep, j + Len(sep)))

\* s.split(sep)
Split(s, sep) == SplitFrom(s, sep, 1)

First(parts) == parts[1]
Last(parts) == parts[Len(parts)]

\* parts[lo] + ... + parts[hi]
RECURSIVE ConcatRange(_, _, _)
ConcatRange(parts, lo, hi) ==
    IF lo > hi THEN <<>>
    ELSE IF lo = hi THEN parts[lo]
    ELSE Bind((lo + hi) \div 2,
              LAMBDA m : ConcatRange(parts, lo, m) \o ConcatRange(parts, m + 1, hi))

\* "".join(parts)
Concat(parts) == ConcatRange(parts, 1, Len(parts))

\* s.replace(sub, ""): the occurrences of sub, found left to right, are dropped.
RemoveAll(s, sub) == Bind(Split(s, sub), LAMBDA parts : Concat(parts))

\* s.strip(chars)
Strip(s, chars) ==
    Bind({k \in 1..Len(s) : s[k] \notin chars},
         LAMBDA keep : IF keep = {} THEN <<>> ELSE SubSeq(s, Min(keep), Max(keep)))

Whitespace == {" ", "\t", "\n", "\r"}

DecDigits == {"0", "1", "2", "3", "4", "5", "6", "7", "8", "9"}
HexLower == {"a", "b", "c", "d", "e", "f"}
HexUpper == {"A", "B", "C", "D", "E", "F"}
HexDigits == DecDigits \cup HexLower \cup HexUpper

ToLower(c) ==
    CASE c = "A" -> "a" [] c = "B" -> "b" [] c = "C" -> "c"
      [] c = "D" -> "d" [] c = "E" -> "e" [] c = "F" -> "f"
      [] OTHER -> c

ToUpper(c) ==
    CASE c = "a" -> "A" [] c = "b" -> "B" [] c = "c" -> "C"
      [] c = "d" -> "D" [] c = "e" -> "E" [] c = "f" -> "F"
      [] OTHER -> c

\* int(): the text after the sign, and after the 0x/0X prefix (with one
\* underscore after it) that base 16 allows.
IntBody(t, base) ==
    Bind(IF t # <<>> /\ Head(t) \in {"+", "-"} THEN Tail(t) ELSE t,
         LAMBDA u :
            IF base = 16 /\ Len(u) >= 2 /\ u[1] = "0" /\ u[2] \in {"x", "X"}
            THEN (IF Len(u) >= 3 /\ u[3] = "_" THEN Drop(u, 3) ELSE Drop(u, 2))
            ELSE u)

\* int(): digits of the base, single underscores allowed between them.
WellFormed(w, base) ==
    /\ w # <<>>
    /\ \A k \in 1..Len(w) : w[k] \in (IF base = 16 THEN HexDigits ELSE DecDigits) \cup {"_"}
    /\ w[1] # "_"
    /\ w[Len(w)] # "_"
    /\ \A k \in 1..(Len(w) - 1) : ~(w[k] = "_" /\ w[k + 1] = "_")

IntParseStripped(t, base) ==
    Bind(IntBody(t, base),
         LAMBDA w : IF WellFormed(w, base)
                    THEN [ok |-> TRUE, neg |-> Head(t) = "-",
                          digits |-> SelectSeq(w, LAMBDA c : c # "_")]
                    ELSE [ok |-> FALSE, neg |-> FALSE, digits |-> <<>>])

\* int(s, base) for base 10 or 16, as far as the digits: surrounding whitespace
\* is stripped, one sign is allowed, base 16 allows a 0x/0X prefix, and single
\* underscores may separate digits.  ok = FALSE stands for ValueError.
IntParse(s, base) ==
    Bind(Strip(s, Whitespace), LAMBDA t : IntParseStripped(t, base))

-----------------------------------------------------------------------------
(* notion.settings, imported at utils.py:11-16 *)

BASE_URL ==
    <<"h","t","t","p","s",":","/","/","w","w","w",".","n","o","t","i","o","n",".","s","o","/">>

SIGNED_URL_PREFIX ==
    <<"h","t","t","p","s",":","/","/","w","w","w",".","n","o","t","i","o","n",".","s","o","/",
      "s","i","g","n","e","d","/">>

S3_URL_PREFIX ==
    <<"h","t","t","p","s",":","/","/","s","3","-","u","s","-","w","e","s","t","-","2",".",
      "a","m","a","z","o","n","a","w","s",".","c","o","m","/",
      "s","e","c","u","r","e",".","n","o","t","i","o","n","-","s","t","a","t","i","c",".",
      "c","o","m","/">>

-----------------------------------------------------------------------------
(* uuid.UUID(hex) and str(uuid.UUID), called at utils.py:129 *)

UUIDHexLen == 32

Zeros(n) == [k \in 1..n |-> "0"]

UUIDParseDigits(h2) ==
    IF Len(h2) # UUIDHexLen THEN [ok |-> FALSE, digits |-> <<>>]
    ELSE Bind(IntParse(h2, 16),
              LAMBDA p :
                IF ~p.ok THEN [ok |-> FALSE, digits |-> <<>>]
                ELSE IF p.neg /\ \E k \in 1..Len(p.digits) : p.digits[k] # "0"
                THEN [ok |-> FALSE, digits |-> <<>>]
                ELSE [ok |-> TRUE, digits |-> p.digits])

\* uuid.UUID(hex): "urn:" and "uuid:" are removed, then surrounding braces,
\* then every "-"; what is left must be 32 characters that int(.., 16) reads
\* as a value from 0 to 2^128 - 1.  ok = FALSE stands for ValueError; digits
\* are the hex digits of the value as int() read them.
UUIDParse(hex) ==
    Bind(RemoveAll(hex, <<"u","r","n",":">>), LAMBDA h0 :
    Bind(RemoveAll(h0, <<"u","u","i","d",":">>), LAMBDA h1 :
    Bind(Strip(h1, {"{", "}"}), LAMBDA h2 :
    Bind(RemoveAll(h2, <<"-">>), LAMBDA h3 : UUIDParseDigits(h3)))))

Grouped(hex) ==
    SubSeq(hex, 1, 8) \o <<"-">> \o SubSeq(hex, 9, 12) \o <<"-">> \o
    SubSeq(hex, 13, 16) \o <<"-">> \o SubSeq(hex, 17, 20) \o <<"-">> \o
    SubSeq(hex, 21, 32)

UUIDStrKeepCase(digits) ==
    Bind(Zeros(UUIDHexLen - Len(digits)) \o digits, LAMBDA hex : Grouped(hex))

\* str(uuid.UUID(...)): '%032x' of the value, grouped 8-4-4-4-12.
UUIDStr(digits) ==
    Bind(Zeros(UUIDHexLen - Len(digits)) \o [k \in 1..Len(digits) |-> ToLower(digits[k])],
         LAMBDA hex : Grouped(hex))

-----------------------------------------------------------------------------
(* extract_id, utils.py:90-131 *)

AfterLast(s, sep) == Bind(Split(s, sep), LAMBDA parts : Last(parts))
BeforeFirst(s, sep) == Bind(Split(s, sep), LAMBDA parts : First(parts))

StripUrlFirstFragment(url_or_id) ==
    Bind(BeforeFirst(url_or_id, <<"#">>), LAMBDA a :
    Bind(AfterLast(a, <<"/">>), LAMBDA b :
    Bind(AfterLast(b, <<"&","p","=">>), LAMBDA c :
    Bind(BeforeFirst(c, <<"?">>), LAMBDA d : AfterLast(d, <<"-">>)))))

StripUrlKeepSlug(url_or_id) ==
    Bind(AfterLast(url_or_id, <<"#">>), LAMBDA a :
    Bind(AfterLast(a, <<"/">>), LAMBDA b :
    Bind(AfterLast(b, <<"&","p","=">>), LAMBDA c : BeforeFirst(c, <<"?">>))))

\* utils.py:120-126: the chain of splits applied to a URL under BASE_URL.
StripUrl(url_or_id) ==
    Bind(AfterLast(url_or_id, <<"#">>), LAMBDA a :
    Bind(AfterLast(a, <<"/">>), LAMBDA b :
    Bind(AfterLast(b, <<"&","p","=">>), LAMBDA c :
    Bind(BeforeFirst(c, <<"?">>), LAMBDA d : AfterLast(d, <<"-">>)))))

\* utils.py:119-126: the string handed to uuid.UUID.
Candidate(url_or_id) ==
    IF StartsWith(url_or_id, BASE_URL) THEN StripUrl(url_or_id) ELSE url_or_id

ErrorArgStripped(original_url_or_id, url_or_id) == url_or_id

\* utils.py:131: the argument of InvalidNotionIdentifier.
ErrorArg(original_url_or_id, url_or_id) == original_url_or_id

extract_id(url_or_id) ==
    Bind(Candidate(url_or_id), LAMBDA stripped :
    Bind(UUIDParse(stripped), LAMBDA parsed :
        IF parsed.ok THEN Return(UUIDStr(parsed.digits))
        ELSE Raise("InvalidNotionIdentifier", ErrorArg(url_or_id, stripped))))

-----------------------------------------------------------------------------
(* Inputs of extract_id *)

NumNibbles == 2
MaxSlugWords == 2
MaxCalls == 2

HexPool == <<"a", "0", "7", "f", "3", "c">>

Nibbles == {HexPool[k] : k \in 1..NumNibbles}

\* 128-bit identifiers, as 32 lowercase hex digits.
Ids == {[k \in 1..UUIDHexLen |-> IF k % 2 = 1 THEN c ELSE d] : c \in Nibbles, d \in Nibbles}

Dashed(h) ==
    SubSeq(h, 1, 8) \o <<"-">> \o SubSeq(h, 9, 12) \o <<"-">> \o
    SubSeq(h, 13, 16) \o <<"-">> \o SubSeq(h, 17, 20) \o <<"-">> \o SubSeq(h, 21, 32)

Upper(h) == [k \in 1..Len(h) |-> ToUpper(h[k])]

\* The canonical dashed-lowercase string of identifier i.
Canonical(i) == Dashed(i)

IsCanonical(s) ==
    /\ Len(s) = 36
    /\ \A k \in 1..36 :
        IF k \in {9, 14, 19, 24} THEN s[k] = "-" ELSE s[k] \in DecDigits \cup HexLower

Renderings == {"hex", "HEX", "dashed", "DASHED", "braced", "urn"}
UrlRenderings == {"hex", "HEX", "dashed"}
Undashed == {"hex", "HEX"}

Render(i, rend) ==
    CASE rend = "hex" -> i
      [] rend = "HEX" -> Upper(i)
      [] rend = "dashed" -> Dashed(i)
      [] rend = "DASHED" -> Upper(Dashed(i))
      [] rend = "braced" -> <<"{">> \o Dashed(i) \o <<"}">>
      [] rend = "urn" -> <<"u","r","n",":","u","u","i","d",":">> \o Dashed(i)

Malformations == {"short", "nonhex", "plus", "0x", "space", "underscore", "empty"}

Malformed(i, how) ==
    CASE how = "short" -> SubSeq(i, 1, 31)
      [] how = "nonhex" -> <<"g">> \o SubSeq(i, 2, 32)
      [] how = "plus" -> <<"+">> \o SubSeq(i, 2, 32)
      [] how = "0x" -> <<"0", "x">> \o SubSeq(i, 3, 32)
      [] how = "space" -> <<" ">> \o SubSeq(i, 2, 32)
      [] how = "underscore" -> SubSeq(i, 1, 15) \o <<"_">> \o SubSeq(i, 17, 32)
      [] how = "empty" -> <<>>

RECURSIVE Slug(_)
Slug(n) == IF n = 0 THEN <<>> ELSE <<"M", "y", "-">> \o Slug(n - 1)

ViewQuery(v) == <<"?", "v", "=">> \o v

FOREIGN_URL == <<"h","t","t","p",":","/","/","e","x",".","i","o","/">>

Shapes == {"bare", "malformed", "foreign", "plain", "view", "fragment",
           "fragment_query", "legacy", "slug"}

\* The input string of a case: shape is the URL shape, id the identifier it
\* embeds written as rend, page (written as prend) the page identifier that
\* precedes it where the shape has one, words the number of slug words.
InputOf(c) ==
    LET r == Render(c.id, c.rend)
        pg == Render(c.page, c.prend)
    IN CASE c.shape = "bare" -> r
         [] c.shape = "malformed" -> Malformed(c.id, c.rend)
         [] c.shape = "foreign" -> FOREIGN_URL \o r
         [] c.shape = "plain" -> BASE_URL \o r
         [] c.shape = "view" -> BASE_URL \o r \o ViewQuery(c.page)
         [] c.shape = "fragment" -> BASE_URL \o Slug(c.words) \o pg \o <<"#">> \o r
         [] c.shape = "fragment_query" ->
                BASE_URL \o pg \o ViewQuery(c.page) \o <<"#">> \o r
         [] c.shape = "legacy" ->
                BASE_URL \o pg \o ViewQuery(c.page) \o <<"&", "p", "=">> \o r
         [] c.shape = "slug" -> BASE_URL \o Slug(c.words) \o r

Case(shape, i, rend, page, prend, words) ==
    [shape |-> shape, id |-> i, rend |-> rend, page |-> page, prend |-> prend,
     words |-> words]

Cases ==
    {Case("bare", i, r, i, "hex", 0) : i \in Ids, r \in Renderings}
    \cup {Case("malformed", i, m, i, "hex", 0) : i \in Ids, m \in Malformations}
    \cup {Case("foreign", i, "hex", i, "hex", 0) : i \in Ids}
    \cup {Case("plain", i, r, i, "hex", 0) : i \in Ids, r \in UrlRenderings}
    \cup {Case("view", i, r, i, "hex", 0) : i \in Ids, r \in UrlRenderings}
    \cup UNION {{Case("fragment", i, r, pg, pr, w) : i \in Ids, r \in UrlRenderings,
                    pg \in Ids, pr \in {"hex", "dashed"}} : w \in 0..MaxSlugWords}
    \cup {Case("fragment_query", i, r, pg, pr, 0) : i \in Ids, r \in UrlRenderings,
                    pg \in Ids, pr \in {"hex", "dashed"}}
    \cup {Case("legacy", i, r, pg, "hex", 0) : i \in Ids, r \in UrlRenderings, pg \in Ids}
    \cup UNION {{Case("slug", i, r, i, "hex", w) : i \in Ids, r \in UrlRenderings} :
                    w \in 1..MaxSlugWords}

-----------------------------------------------------------------------------
(* Values of the variables a specification does not use *)

EidIdle ==
    /\ eid_case = Case("bare", <<>>, "hex", <<>>, "hex", 0)
    /\ eid_in = <<>>
    /\ eid_arg = <<>>
    /\ eid_out = NoCall
    /\ eid_prev = NoCall
    /\ eid_calls = 0

GpIdle ==
    /\ gp_path = <<>>
    /\ gp_obj = <<>>
    /\ gp_default = <<>>
    /\ gp_out = NoCall

SuIdle ==
    /\ su_url = <<>>
    /\ su_client = FALSE
    /\ su_cur = <<>>
    /\ su_ops = <<>>
    /\ su_out = NoCall

-----------------------------------------------------------------------------
(* Specification of extract_id: a caller passes a string, and may pass the  *)
(* identifier it got back in again.                                        *)

ExtractInit ==
    /\ eid_case \in Cases
    /\ eid_in = InputOf(eid_case)
    /\ eid_arg = eid_in
    /\ eid_out = NoCall
    /\ eid_prev = NoCall
    /\ eid_calls = 0
    /\ GpIdle
    /\ SuIdle

CallExtractId ==
    /\ eid_out = NoCall
    /\ eid_out' = extract_id(eid_arg)
    /\ eid_calls' = eid_calls + 1
    /\ UNCHANGED <<eid_case, eid_in, eid_arg, eid_prev, gp_vars, su_vars>>

PassResultBack ==
    /\ eid_out.kind = "return"
    /\ eid_calls < MaxCalls
    /\ eid_arg' = eid_out.val
    /\ eid_prev' = eid_out
    /\ eid_out' = NoCall
    /\ UNCHANGED <<eid_case, eid_in, eid_calls, gp_vars, su_vars>>

ExtractNext == CallExtractId \/ PassResultBack

SpecExtract == ExtractInit /\ [][ExtractNext]_vars

-----------------------------------------------------------------------------
(* Claims about extract_id, checked under SpecExtract *)

FirstCallDone == eid_calls = 1 /\ eid_out # NoCall

ClaimedShapes == {"plain", "fragment", "legacy", "slug"}

\* C1 as stated: for every identifier i and every supported URL shape under
\* BASE_URL that embeds i (plain page URL, #blockid fragment, legacy &p=
\* parameter, hyphenated slug ending in i), however i is written in the URL,
\* extract_id returns the canonical dashed-lowercase string of i.
C1_AnyRendering ==
    (FirstCallDone /\ eid_case.shape \in ClaimedShapes)
        => eid_out = Return(Canonical(eid_case.id))

\* C1 amended: the same, for URLs that embed i as 32 hexadecimal digits
\* without dashes (in either letter case).
C1_UndashedEmbedding ==
    (FirstCallDone /\ eid_case.shape \in ClaimedShapes /\ eid_case.rend \in Undashed)
        => eid_out = Return(Canonical(eid_case.id))

C1_Witness ==
    /\ FirstCallDone
    /\ eid_case.shape = "slug"
    /\ eid_case.words = MaxSlugWords
    /\ eid_case.rend = "HEX"
    /\ eid_out = Return(Canonical(eid_case.id))
    /\ eid_out.val # eid_in

\* C2: every call of extract_id either returns or raises
\* InvalidNotionIdentifier, and the error carries the string exactly as it
\* was passed in, not the string left by the URL-stripping steps.
C2_ErrorCarriesOriginal ==
    eid_out # NoCall =>
        \/ eid_out.kind = "return"
        \/ /\ eid_out.kind = "raise"
           /\ eid_out.exc = "InvalidNotionIdentifier"
           /\ eid_out.val = eid_arg

C2_Witness ==
    /\ eid_out.kind = "raise"
    /\ StartsWith(eid_arg, BASE_URL)
    /\ Candidate(eid_arg) # eid_arg
    /\ eid_out.val = eid_in

\* C5: a canonical identifier string passes through unchanged; every string
\* extract_id returns is canonical (dashed, lowercase, 8-4-4-4-12), and
\* passing a returned identifier back in returns it again.
C5_CanonicalFixpoint ==
    /\ (FirstCallDone /\ eid_case.shape = "bare" /\ eid_case.rend = "dashed")
            => eid_out = Return(eid_in)
    /\ eid_out.kind = "return" => IsCanonical(eid_out.val)
    /\ (eid_calls >= 2 /\ eid_out # NoCall) => eid_out = eid_prev

C5_Witness ==
    /\ eid_calls = 2
    /\ eid_out.kind = "return"
    /\ eid_out = eid_prev
    /\ eid_case.rend = "HEX"
    /\ eid_out.val # eid_in
    /\ \E k \in 1..Len(eid_in) : eid_in[k] \in HexUpper

FragmentShapes == {"fragment", "fragment_query"}

\* C6 as stated: for a URL under BASE_URL with a page identifier in its path
\* and a block identifier after '#', however the two are written,
\* extract_id returns the block identifier of the fragment.
C6_AnyRendering ==
    (FirstCallDone /\ eid_case.shape \in FragmentShapes)
        => eid_out = Return(Canonical(eid_case.id))

\* C6 amended: for a URL under BASE_URL with a page identifier in its path
\* (with or without a slug or a query) and a block identifier written as 32
\* hexadecimal digits without dashes after '#', extract_id returns the block
\* identifier and not the page identifier; and for the legacy URL, whose
\* identifier follows '&p=' inside the query, it returns that identifier:
\* the splits act in the order '#', '/', '&p=', '?', '-'.
C6_FragmentFirst ==
    /\ (FirstCallDone /\ eid_case.shape \in FragmentShapes /\ eid_case.rend \in Undashed)
            => /\ eid_out = Return(Canonical(eid_case.id))
               /\ eid_case.page # eid_case.id => eid_out.val # Canonical(eid_case.page)
    /\ (FirstCallDone /\ eid_case.shape = "legacy" /\ eid_case.rend \in Undashed)
            => eid_out = Return(Canonical(eid_case.id))

C6_Witness ==
    /\ FirstCallDone
    /\ eid_case.shape = "fragment_query"
    /\ eid_case.rend = "hex"
    /\ eid_case.page # eid_case.id
    /\ eid_out = Return(Canonical(eid_case.id))

-----------------------------------------------------------------------------
(* get_by_path, utils.py:239-277 *)

\* Python values: a scalar (int, str, None: not subscriptable by a str key),
\* a dict with str keys, or a list.
Scalar(v) == [tag |-> "scalar", v |-> v]
Dict(kv) == [tag |-> "dict", kv |-> kv]
List(items) == [tag |-> "list", items |-> items]

\* The path argument: a str, or a sequence of str segments.
StrPath(s) == [isstr |-> TRUE, s |-> s, segs |-> <<>>]
SeqPath(segs) == [isstr |-> FALSE, s |-> <<>>, segs |-> segs]

DigitValue(c) ==
    CASE c = "0" -> 0 [] c = "1" -> 1 [] c = "2" -> 2 [] c = "3" -> 3 [] c = "4" -> 4
      [] c = "5" -> 5 [] c = "6" -> 6 [] c = "7" -> 7 [] c = "8" -> 8 [] c = "9" -> 9

\* The value of the first n decimal digits.
RECURSIVE DecValueUpTo(_, _)
DecValueUpTo(digits, n) ==
    IF n = 0 THEN 0 ELSE 10 * DecValueUpTo(digits, n - 1) + DigitValue(digits[n])

DecValue(digits) == DecValueUpTo(digits, Len(digits))

\* int(key), utils.py:272: ok = FALSE stands for ValueError.
IntOf(key) ==
    Bind(IntParse(key, 10),
         LAMBDA p : [ok |-> p.ok,
                     n |-> IF ~p.ok THEN 0
                           ELSE IF p.neg THEN 0 - DecValue(p.digits)
                           ELSE DecValue(p.digits)])

\* value[key] for a list value and an int key, utils.py:273: a negative key
\* counts from the end of the list.
ListItem(items, n) ==
    IF 0 <= n /\ n < Len(items) THEN [exc |-> "", item |-> items[n + 1]]
    ELSE IF n < 0 /\ 0 - n <= Len(items) THEN [exc |-> "", item |-> items[Len(items) + n + 1]]
    ELSE [exc |-> "IndexError", item |-> Scalar("")]

\* One pass of the loop body, utils.py:271-273: the exception raised ("" when
\* none) and what the variable value holds afterwards (the new value, or the
\* old one when the pass raised).
Step(value, key) ==
    IF value.tag = "list"
    THEN Bind(IntOf(key), LAMBDA i :
            IF ~i.ok THEN [exc |-> "ValueError", item |-> value]
            ELSE Bind(ListItem(value.items, i.n), LAMBDA r :
                    IF r.exc # "" THEN [exc |-> r.exc, item |-> value] ELSE r))
    ELSE IF value.tag = "dict"
    THEN IF key \in DOMAIN value.kv THEN [exc |-> "", item |-> value.kv[key]]
         ELSE [exc |-> "KeyError", item |-> value]
    ELSE [exc |-> "TypeError", item |-> value]

\* The for loop, utils.py:270-273: the exception that ends it ("" when every
\* key is consumed) and what the variable value holds then.
RECURSIVE Traverse(_, _)
Traverse(value, path) ==
    IF path = <<>> THEN [exc |-> "", item |-> value]
    ELSE Bind(Step(value, Head(path)),
              LAMBDA r : IF r.exc # "" THEN r ELSE Traverse(r.item, Tail(path)))

\* utils.py:274: the exceptions the except clause catches.
Caught == {"KeyError", "TypeError", "IndexError"}

SegmentsNoEmpty(path) ==
    IF path.isstr THEN (IF path.s = <<>> THEN <<>> ELSE Split(path.s, <<".">>))
    ELSE path.segs

\* utils.py:262-263
Segments(path) == IF path.isstr THEN Split(path.s, <<".">>) ELSE path.segs

OnFailureKeepValue(reached, default) == reached

\* utils.py:275
OnFailure(reached, default) == default

get_by_path(path, obj, default) ==
    Bind(Segments(path), LAMBDA keys :
    Bind(Traverse(obj, keys), LAMBDA r :
        IF r.exc = "" THEN Return(r.item)
        ELSE IF r.exc \in Caught THEN Return(OnFailure(r.item, default))
        ELSE Raise(r.exc, <<>>)))

-----------------------------------------------------------------------------
(* Inputs of get_by_path *)

MaxPathLen == 4
MaxSegs == 2

PathAlphabet == {"a", "0", "1", "-", "."}

RECURSIVE StringsUpTo(_, _)
StringsUpTo(alphabet, n) ==
    IF n = 0 THEN {<<>>}
    ELSE Bind(StringsUpTo(alphabet, n - 1),
              LAMBDA shorter : shorter \cup {Append(t, c) : t \in shorter, c \in alphabet})

SegPool == {<<>>, <<"a">>, <<"0">>, <<"1">>, <<"-", "1">>, <<"a", ".", "0">>}

RECURSIVE SeqsUpTo(_, _)
SeqsUpTo(pool, n) ==
    IF n = 0 THEN {<<>>}
    ELSE Bind(SeqsUpTo(pool, n - 1),
              LAMBDA shorter : shorter \cup {Append(t, x) : t \in shorter, x \in pool})

Paths ==
    {StrPath(t) : t \in StringsUpTo(PathAlphabet, MaxPathLen)}
    \cup {SeqPath(t) : t \in SeqsUpTo(SegPool, MaxSegs)}

Leaves == {Scalar("10"), Scalar("20")}

KeyA == <<"a">>
KeyEmpty == <<>>

\* The dicts and lists whose items are a node of below, beside fixed leaves.
Over(below) ==
    {Dict(<<>>), List(<<>>)}
    \cup {Dict([k \in {KeyA} |-> c]) : c \in below}
    \cup {Dict([k \in {KeyEmpty} |-> c]) : c \in below}
    \cup {Dict([k \in {KeyA, KeyEmpty} |-> IF k = KeyA THEN c ELSE Scalar("20")]) : c \in below}
    \cup {List(<<c>>) : c \in below}
    \cup {List(<<Scalar("10"), c>>) : c \in below}

Targets == Leaves \cup Over(Leaves) \cup Over(Leaves \cup Over(Leaves))

Defaults == {Scalar("None"), Scalar("X")}

-----------------------------------------------------------------------------
(* Specification of get_by_path: one call on a path, a target and a default *)

PathInit ==
    /\ gp_path \in Paths
    /\ gp_obj \in Targets
    /\ gp_default \in Defaults
    /\ gp_out = NoCall
    /\ EidIdle
    /\ SuIdle

CallGetByPath ==
    /\ gp_out = NoCall
    /\ gp_out' = get_by_path(gp_path, gp_obj, gp_default)
    /\ UNCHANGED <<gp_path, gp_obj, gp_default, eid_vars, su_vars>>

PathNext == CallGetByPath

SpecPath == PathInit /\ [][PathNext]_vars

-----------------------------------------------------------------------------
(* Claims about get_by_path, checked under SpecPath *)

GpCalled == gp_out # NoCall

\* C3: get_by_path never raises: whatever the path, the target and the
\* default, the call returns a value.
C3_NeverRaises == GpCalled => gp_out.kind = "return"

\* What the claims call a segment that resolves, read off the segment's text:
\* a key the mapping holds, or the decimal digits of an index within the list.
AllDigits(seg) == seg # <<>> /\ \A k \in 1..Len(seg) : seg[k] \in DecDigits

Resolves(node, seg) ==
    \/ node.tag = "dict" /\ seg \in DOMAIN node.kv
    \/ node.tag = "list" /\ AllDigits(seg) /\ DecValue(seg) < Len(node.items)

Child(node, seg) ==
    IF node.tag = "dict" THEN node.kv[seg] ELSE node.items[DecValue(seg) + 1]

\* The failures C4 lists: key absent, index out of range, scalar node.
FailsAsListed(node, seg) ==
    \/ node.tag = "dict" /\ seg \notin DOMAIN node.kv
    \/ node.tag = "list" /\ AllDigits(seg) /\ DecValue(seg) >= Len(node.items)
    \/ /\ node.tag = "list"
       /\ seg # <<>> /\ Head(seg) = "-" /\ AllDigits(Tail(seg))
       /\ DecValue(Tail(seg)) > Len(node.items)
    \/ node.tag = "scalar"

\* The result C4 promises: the value after the last segment when every
\* segment resolves, the default when a step fails as listed; covered is FALSE
\* when a step is neither (C4 says nothing of such a path).
RECURSIVE Promised(_, _, _)
Promised(node, segs, default) ==
    IF segs = <<>> THEN [covered |-> TRUE, val |-> node]
    ELSE IF Resolves(node, Head(segs))
    THEN Bind(Child(node, Head(segs)), LAMBDA c : Promised(c, Tail(segs), default))
    ELSE IF FailsAsListed(node, Head(segs)) THEN [covered |-> TRUE, val |-> default]
    ELSE [covered |-> FALSE, val |-> default]

\* C4: get_by_path is all-or-default: when every segment resolves in order the
\* result is the value reached after the last one; when a step fails because
\* a key is absent, an index is out of range or the node is a scalar, the
\* result is the default, never a node reached before the failing step.
C4_AllOrDefault ==
    GpCalled =>
        \A segs \in {Segments(gp_path)} :
            \A want \in {Promised(gp_obj, segs, gp_default)} :
                want.covered => gp_out = Return(want.val)

\* A call that resolves its first segment to a composite node and fails on
\* the second.
C4_Witness ==
    /\ GpCalled
    /\ gp_path.isstr
    /\ \E segs \in {Segments(gp_path)} :
        /\ Len(segs) = 2
        /\ Resolves(gp_obj, segs[1])
        /\ Child(gp_obj, segs[1]).tag # "scalar"
        /\ FailsAsListed(Child(gp_obj, segs[1]), segs[2])
    /\ gp_out = Return(gp_default)

\* Whether the traversal of path from value comes to index a list with a
\* segment that parses as a negative integer.
RECURSIVE IndexesWithNegative(_, _)
IndexesWithNegative(value, path) ==
    IF path = <<>> THEN FALSE
    ELSE \/ value.tag = "list" /\ IntOf(Head(path)).ok /\ IntOf(Head(path)).n < 0
         \/ \E r \in {Step(value, Head(path))} :
                r.exc = "" /\ IndexesWithNegative(r.item, Tail(path))

\* C8: a segment that parses as a negative integer is never used to index a
\* list from its end: such a call yields the default.
C8_NoNegativeIndex ==
    GpCalled =>
        \A segs \in {Segments(gp_path)} :
            IndexesWithNegative(gp_obj, segs) => gp_out = Return(gp_default)

-----------------------------------------------------------------------------
(* urllib.parse.quote_plus and unquote_plus, called at utils.py:190, 215 *)

\* The printable ASCII characters, from code 32 (space) to code 126 (code 96
\* is written as a token).
Ascii ==
    <<
      " ", "!", "\"", "#", "$", "%", "&", "'", "(", ")", "*", "+", ",", "-", ".", "/",
      "0", "1", "2", "3", "4", "5", "6", "7", "8", "9", ":", ";", "<", "=", ">", "?",
      "@", "A", "B", "C", "D", "E", "F", "G", "H", "I", "J", "K", "L", "M", "N", "O",
      "P", "Q", "R", "S", "T", "U", "V", "W", "X", "Y", "Z", "[", "\\", "]", "^", "_",
      "<backtick>", "a", "b", "c", "d", "e", "f", "g", "h", "i", "j", "k", "l", "m", "n", "o",
      "p", "q", "r", "s", "t", "u", "v", "w", "x", "y", "z", "{", "|", "}", "~" >>

Ord(c) == CHOOSE n \in 32..126 : Ascii[n - 31] = c

\* The character of a byte: outside printable ASCII a token stands for it (a
\* control character, or the replacement character of a byte that is not
\* ASCII).
Chr(n) == IF n \in 32..126 THEN Ascii[n - 31] ELSE IF n < 32 THEN "<ctl>" ELSE "<U+FFFD>"

HexChars == <<"0", "1", "2", "3", "4", "5", "6", "7", "8", "9", "A", "B", "C", "D", "E", "F">>

HexValue(c) == (CHOOSE k \in 1..16 : HexChars[k] = ToUpper(c)) - 1

\* Characters quote() never escapes: letters, digits and "_.-~".
AlwaysSafe ==
    {Ascii[n - 31] : n \in (48..57) \cup (65..90) \cup (97..122)} \cup {"_", ".", "-", "~"}

\* quote_plus(string): a space becomes "+", every other unsafe character its
\* %XX escape in upper-case hex.
QuoteChar(c) ==
    IF c \in AlwaysSafe THEN <<c>>
    ELSE IF c = " " THEN <<"+">>
    ELSE Bind(Ord(c), LAMBDA n : <<"%", HexChars[(n \div 16) + 1], HexChars[(n % 16) + 1]>>)

QuotePlus(string) ==
    Bind([k \in 1..Len(string) |-> QuoteChar(string[k])], LAMBDA parts : Concat(parts))

\* unquote_plus(string): every "+" becomes a space, then every %XX with two
\* hex digits becomes the character of that byte; other text stays as it is.
IsEscape(t, k) ==
    k + 2 <= Len(t) /\ t[k] = "%" /\ t[k + 1] \in HexDigits /\ t[k + 2] \in HexDigits

Unquote(t) ==
    Bind([k \in 1..Len(t) |->
            IF IsEscape(t, k) THEN <<Chr(16 * HexValue(t[k + 1]) + HexValue(t[k + 2]))>>
            ELSE IF (k > 1 /\ IsEscape(t, k - 1)) \/ (k > 2 /\ IsEscape(t, k - 2)) THEN <<>>
            ELSE <<t[k]>>],
         LAMBDA parts : Concat(parts))

UnquotePlus(string) ==
    Bind([k \in 1..Len(string) |-> IF string[k] = "+" THEN " " ELSE string[k]],
         LAMBDA t : Unquote(t))

-----------------------------------------------------------------------------
(* add_signed_prefix_as_needed and remove_signed_prefix_as_needed,            *)
(* utils.py:164-217                                                        *)

\* Python's None where a str is expected (a Location header that is absent).
NoneValue == <<"<None>">>

\* utils.py:185-195.  client tells whether a client is passed; head is the
\* outcome of client.session.head(url).headers.get("Location").
add_signed_prefix_as_needed(url, client, head) ==
    IF url = <<>> \/ url = NoneValue THEN Return(<<>>)
    ELSE IF StartsWith(url, S3_URL_PREFIX)
    THEN Bind(Split(url, <<"?">>), LAMBDA parts :
            IF Len(parts) # 2 THEN Raise("ValueError", <<>>)
            ELSE IF client THEN head
            ELSE Bind(parts[1], LAMBDA path :
                    Return(SIGNED_URL_PREFIX \o QuotePlus(path) \o <<"?">> \o parts[2])))
    ELSE Return(url)

\* utils.py:214-217
remove_signed_prefix_as_needed(url) ==
    IF url = NoneValue THEN Raise("AttributeError", <<>>)
    ELSE IF StartsWith(url, SIGNED_URL_PREFIX)
    THEN Bind(Drop(url, Len(S3_URL_PREFIX)), LAMBDA rest : Return(UnquotePlus(rest)))
    ELSE Return(url)

-----------------------------------------------------------------------------
(* Specification of the signing helpers: a url is signed, unsigned, or      *)
(* signed and then unsigned (or the reverse), each helper called once.      *)

MaxTailLen == 3

TailAlphabet == {"a", "?", "+", "%", "2", "5", " "}

SignPrefixes ==
    {S3_URL_PREFIX, SIGNED_URL_PREFIX, SIGNED_URL_PREFIX \o QuotePlus(S3_URL_PREFIX),
     FOREIGN_URL, <<>>}

SignInputs == {pre \o t : pre \in SignPrefixes, t \in StringsUpTo(TailAlphabet, MaxTailLen)}

\* What the HEAD request of a client may give back.
HeadOutcomes ==
    {Return(NoneValue), Return(S3_URL_PREFIX \o <<"a">>), Raise("ConnectionError", <<>>)}

Did(op) == \E k \in 1..Len(su_ops) : su_ops[k] = op

SignInit ==
    /\ su_url \in SignInputs
    /\ su_client \in BOOLEAN
    /\ su_cur = su_url
    /\ su_ops = <<>>
    /\ su_out = NoCall
    /\ EidIdle
    /\ GpIdle

CallAddSignedPrefix ==
    /\ ~Did("add")
    /\ su_out.kind # "raise"
    /\ \E head \in HeadOutcomes :
            su_out' = add_signed_prefix_as_needed(su_cur, su_client, head)
    /\ su_cur' = IF su_out'.kind = "return" THEN su_out'.val ELSE su_cur
    /\ su_ops' = Append(su_ops, "add")
    /\ UNCHANGED <<su_url, su_client, eid_vars, gp_vars>>

CallRemoveSignedPrefix ==
    /\ ~Did("remove")
    /\ su_out.kind # "raise"
    /\ su_out' = remove_signed_prefix_as_needed(su_cur)
    /\ su_cur' = IF su_out'.kind = "return" THEN su_out'.val ELSE su_cur
    /\ su_ops' = Append(su_ops, "remove")
    /\ UNCHANGED <<su_url, su_client, eid_vars, gp_vars>>

SignNext == CallAddSignedPrefix \/ CallRemoveSignedPrefix

SpecSigned == SignInit /\ [][SignNext]_vars

-----------------------------------------------------------------------------
(* Claims about the signing helpers, checked under SpecSigned *)

\* C7: for a url that starts with SIGNED_URL_PREFIX,
\* remove_signed_prefix_as_needed returns the URL-decoded remainder after
\* exactly the SIGNED_URL_PREFIX characters; any other url comes back
\* unchanged.
C7_RemovesSignedPrefix ==
    su_ops = <<"remove">> =>
        \A rest \in {Drop(su_url, Len(SIGNED_URL_PREFIX))} :
            su_out = Return(IF StartsWith(su_url, SIGNED_URL_PREFIX)
                            THEN UnquotePlus(rest)
                            ELSE su_url)

\* C10: for a url that starts with S3_URL_PREFIX and holds exactly one '?',
\* signed with no client and then unsigned, the result is the url again.
C10_RoundTrip ==
    (/\ su_ops = <<"add", "remove">>
     /\ ~su_client
     /\ StartsWith(su_url, S3_URL_PREFIX)
     /\ Len(Split(su_url, <<"?">>)) = 2)
        => su_out = Return(su_url)

=============================================================================
